---- MODULE Spec2Model ----
(***************************************************************************)
(* meme-tunnel-streamer: the meme cache (memeservice.Service), the         *)
(* connection-log registry (connectionmanager.Manager) and the SSE handler *)
(* (Server.handleMemeSSE) that drives both, one handler per connection.    *)
(*                                                                         *)
(* Time is counted in minutes since Go's zero time.Time.  A ConnectionLog  *)
(* is a heap object; every handler allocates exactly one, so the object    *)
(* allocated by handler s is addressed by s.                               *)
(***************************************************************************)
EXTENDS Integers, Sequences, FiniteSets, TLC

\* ---------------------------------------------------------------- bounds
NumSessions == 3     \* connections made to a fresh server
MaxCap == 2          \* largest maxConnections the manager is built with
MaxRegTime == 2      \* minutes the clock runs while connections register
NumArrivals == 4     \* connections that have only been registered so far
NumStreams == 2      \* connections streaming from the cache
MaxTime == 5         \* minutes the clock runs while they stream
NumLives == 2        \* connections followed from AddConnection to their close
NumWatched == 2      \* connections registering while a /debug request is served

\* ------------------------------------------------------ program constants
RefreshInterval == 5

Max(S) == CHOOSE n \in S : \A m \in S : m <= n
Sessions == 1..Max({NumSessions, NumArrivals, NumStreams, NumLives, NumWatched})
Clients == 1..NumSessions
Arrivals == 1..NumArrivals
Streams == 1..NumStreams
Lives == 1..NumLives
Watched == 1..NumWatched
NoSession == 0       \* the holder of an unlocked mutex
ZeroTime == 0        \* time.Time{}, what lastFetch holds before the first fetch
BootTime == ZeroTime + RefreshInterval

VARIABLES
    \* connectionmanager.Manager
    connections,      \* map: connection id -> address of its ConnectionLog
    heap,             \* address -> ConnectionLog (or NoLog before allocation)
    maxConnections,
    \* memeservice.Service
    memes, lastFetch, msWriter,
    body,             \* FetchMemes' local: the response body it parsed
    redditResp,       \* FetchMemes' local: the children being extracted
    installed,        \* history: memes as left by the last completed successful fetch
    everNonEmpty,     \* history: some completed successful fetch installed a non-empty set
    lastOK, lastFail, \* history: time of the last successful / failed fetch attempt
    \* wall clock
    now,
    \* one handleMemeSSE per session
    pc, connID, hdrTodo, fetchErr, meme, cancelled, status, sentAfterCancel,
    \* one DebugHandler client
    dbgPc,
    dbgLogs,          \* the slice GetConnectionLogs returned: addresses of logs
    dbgAtSnapshot,    \* history: the heap when GetConnectionLogs returned
    dbgSeen,          \* the log being encoded, as it was when its read began
    dbgEncoded        \* what the encoder has read so far, log by log

cmVars == <<connections, heap, maxConnections>>
msVars == <<memes, lastFetch, msWriter, body, redditResp, installed, everNonEmpty, lastOK, lastFail>>
hVars == <<pc, connID, hdrTodo, fetchErr, meme, cancelled, status, sentAfterCancel>>
dbgVars == <<dbgPc, dbgLogs, dbgAtSnapshot, dbgSeen, dbgEncoded>>
vars == <<cmVars, msVars, now, hVars, dbgVars>>

\* ------------------------------------------------------------ data model
NoLog == [ID |-> "", Timestamp |-> ZeroTime, RemoteAddr |-> "",
          RequestHeaders |-> {}, Events |-> <<>>, allocated |-> FALSE]

Meme(t, u) == [Title |-> t, URL |-> u]
M1 == Meme("cat", "https://i.redd.it/cat.png")
M2 == Meme("dog", "https://i.redd.it/dog.png")
NoMemesAvailable == Meme("No memes available", "")
NoMeme == Meme("", "")      \* the handler's local `meme` outside its scope

Range(f) == {f[i] : i \in DOMAIN f}

\* What the upstream GET can produce: a transport failure, a body that cannot
\* be read, or a body.
Listing(cs) == [kind |-> "listing", children |-> cs]
Bodies == {Listing(<<M1, M2>>), Listing(<<>>), [kind |-> "object"], [kind |-> "garbage"]}
NoBody == [kind |-> "none"]     \* `body` outside FetchMemes
Upstream == {[err |-> "failed to fetch memes"], [err |-> "failed to read response body"]}
            \cup {[err |-> "", body |-> b] : b \in Bodies}

\* json.Unmarshal(data, &redditResp): a listing yields its children, any other
\* JSON object leaves Data.Children nil, anything else is an error.
Unmarshal(data) ==
    CASE data.kind = "listing" -> [err |-> "", children |-> data.children]
      [] data.kind = "object"  -> [err |-> "", children |-> <<>>]
      [] OTHER                 -> [err |-> "failed to parse JSON", children |-> <<>>]

\* r.Header of every request: what a browser's EventSource sends, cut to one name.
RequestHeader == {"Accept"}
HeaderEvent(k) == "Header: " \o k \o " = [*/*]"
RemoteAddrOf(s) == "10.0.0." \o ToString(s) \o ":40000"

\* ------------------------------------------------- connectionmanager.Manager
ConnIDFormat(n) == "conn_" \o ToString(n)

NewConnID(conns) == ConnIDFormat(Cardinality(DOMAIN conns) + 1)

Before(t, u) == t < u

\* The keys the trim loop can end with: map iteration order is unspecified and
\* a later key replaces the candidate only when strictly older, so any key of
\* minimal Timestamp can be the one deleted.
OldestKeys(conns, h) ==
    {k \in DOMAIN conns :
        \A j \in DOMAIN conns : ~Before(h[conns[j]].Timestamp, h[conns[k]].Timestamp)}

\* Mutant: the trim allows one entry too many.
Exceeds_OffByOne(conns, max) == Cardinality(DOMAIN conns) > max + 1

Exceeds(conns, max) == Cardinality(DOMAIN conns) > max

Put(conns, k, a) == [j \in DOMAIN conns \cup {k} |-> IF j = k THEN a ELSE conns[j]]
Delete(conns, k) == [j \in DOMAIN conns \ {k} |-> conns[j]]

\* Mutant: the event is put in front of the log's events.
AppendEvent_Front(conns, h, id, event) ==
    IF id \in DOMAIN conns
    THEN [h EXCEPT ![conns[id]].Events = <<event>> \o @]
    ELSE h

\* Mutant: an event for an id that is not held goes to every held log.
AppendEvent_Anywhere(conns, h, id, event) ==
    [a \in DOMAIN h |->
        IF a \in Range(conns) /\ (id \notin DOMAIN conns \/ conns[id] = a)
        THEN [h[a] EXCEPT !.Events = Append(@, event)]
        ELSE h[a]]

\* AddConnectionEvent: append to the log the id maps to, if it maps to one.
AppendEvent(conns, h, id, event) ==
    IF id \in DOMAIN conns
    THEN [h EXCEPT ![conns[id]].Events = Append(@, event)]
    ELSE h

AddConnectionEvent(id, event) ==
    /\ heap' = AppendEvent(connections, heap, id, event)
    /\ UNCHANGED <<connections, maxConnections>>

\* ------------------------------------------------------ the handler's steps
AddConnection(s) ==
    /\ pc[s] = "start"
    /\ \E hdrs \in {RequestHeader} :
        LET id == NewConnID(connections)
            log == [ID |-> id, Timestamp |-> now, RemoteAddr |-> RemoteAddrOf(s),
                    RequestHeaders |-> hdrs, Events |-> <<>>, allocated |-> TRUE]
            h1 == [heap EXCEPT ![s] = log]
            c1 == Put(connections, id, s)
        IN  /\ heap' = h1
            /\ IF Exceeds(c1, maxConnections)
               THEN \E k \in OldestKeys(c1, h1) : connections' = Delete(c1, k)
               ELSE connections' = c1
            /\ connID' = [connID EXCEPT ![s] = id]
            /\ hdrTodo' = [hdrTodo EXCEPT ![s] = hdrs]
    /\ pc' = [pc EXCEPT ![s] = "established"]
    /\ UNCHANGED <<maxConnections, msVars, now, fetchErr, meme, cancelled, status,
                   sentAfterCancel, dbgVars>>

LogEstablished(s) ==
    /\ pc[s] = "established"
    /\ AddConnectionEvent(connID[s], "Connection Established")
    /\ pc' = [pc EXCEPT ![s] = IF hdrTodo[s] = {} THEN "fetch" ELSE "headers"]
    /\ UNCHANGED <<msVars, now, connID, hdrTodo, fetchErr, meme, cancelled, status,
                   sentAfterCancel, dbgVars>>

LogHeader(s) ==
    /\ pc[s] = "headers"
    /\ \E k \in hdrTodo[s] :
        /\ AddConnectionEvent(connID[s], HeaderEvent(k))
        /\ hdrTodo' = [hdrTodo EXCEPT ![s] = @ \ {k}]
        /\ pc' = [pc EXCEPT ![s] = IF hdrTodo[s] = {k} THEN "fetch" ELSE "headers"]
    /\ UNCHANGED <<msVars, now, connID, fetchErr, meme, cancelled, status,
                   sentAfterCancel, dbgVars>>


\* ----------------------------------------------------- memeservice.Service
Since(t, last) == t - last

\* Mutant: the window is a minute short.
Throttled_OffByOne(t, last) == Since(t, last) < RefreshInterval - 1

\* time.Since(ms.lastFetch) < 5*time.Minute
Throttled(t, last) == Since(t, last) < RefreshInterval

\* Mutant: FetchMemes runs without the lock.
CanLock_Unguarded == TRUE

\* ms.mu.Lock() can be taken: no other holder.  Readers take and release the
\* read lock within one step, so only a writer can be in the way.
CanLock == msWriter = NoSession

\* Mutant: GetRandomMeme reads without the lock.
CanRLock_Unguarded == TRUE

\* ms.mu.RLock() can be taken: no writer holds the lock.
CanRLock == msWriter = NoSession

\* FetchMemes up to its first suspension: take the lock, then either return
\* nil inside the throttle window or go on to the upstream call, lock held.
FetchMemes_Lock(s) ==
    /\ pc[s] = "fetch"
    /\ CanLock
    /\ IF Throttled(now, lastFetch)
       THEN /\ pc' = [pc EXCEPT ![s] = "sse"]
            /\ UNCHANGED msWriter
       ELSE /\ pc' = [pc EXCEPT ![s] = "http"]
            /\ msWriter' = s
    /\ UNCHANGED <<cmVars, memes, lastFetch, body, redditResp, installed, everNonEmpty,
                   lastOK, lastFail, now, connID, hdrTodo, fetchErr, meme, cancelled,
                   status, sentAfterCancel, dbgVars>>

\* Mutant: the slice is reset before the fetch is known to have succeeded.
FailedFetch_Cleared(s, err) ==
    /\ fetchErr' = [fetchErr EXCEPT ![s] = err]
    /\ msWriter' = NoSession
    /\ lastFail' = now
    /\ memes' = <<>>
    /\ pc' = [pc EXCEPT ![s] = "fetch_failed"]
    /\ UNCHANGED <<lastFetch, body, redditResp, installed, everNonEmpty, lastOK>>

\* return fmt.Errorf(...): nothing of the cache is written, the deferred
\* Unlock runs, the handler gets the error.
FailedFetch(s, err) ==
    /\ fetchErr' = [fetchErr EXCEPT ![s] = err]
    /\ msWriter' = NoSession
    /\ lastFail' = now
    /\ pc' = [pc EXCEPT ![s] = "fetch_failed"]
    /\ UNCHANGED <<memes, lastFetch, body, redditResp, installed, everNonEmpty, lastOK>>

\* The upstream call returns; on a parsed body extraction starts from an
\* empty slice.
FetchMemes_Do(s) ==
    /\ pc[s] = "http"
    /\ \E r \in Upstream :
        IF r.err # ""
        THEN FailedFetch(s, r.err)
        ELSE LET u == Unmarshal(r.body)
             IN  IF u.err # ""
                 THEN FailedFetch(s, u.err)
                 ELSE /\ body' = r.body
                      /\ redditResp' = u.children
                      /\ memes' = <<>>
                      /\ pc' = [pc EXCEPT ![s] = "extract"]
                      /\ UNCHANGED <<lastFetch, msWriter, fetchErr, installed,
                                     everNonEmpty, lastOK, lastFail>>
    /\ UNCHANGED <<cmVars, now, connID, hdrTodo, meme, cancelled, status, 
                   sentAfterCancel, dbgVars>>

\* One turn of the extraction loop, or its end: stamp lastFetch, unlock.
FetchMemes_Extract(s) ==
    /\ pc[s] = "extract"
    /\ IF Len(memes) < Len(redditResp)
       THEN /\ memes' = Append(memes, redditResp[Len(memes) + 1])
            /\ UNCHANGED <<lastFetch, msWriter, body, redditResp, installed,
                           everNonEmpty, lastOK, pc>>
       ELSE /\ lastFetch' = now
            /\ msWriter' = NoSession
            /\ body' = NoBody
            /\ redditResp' = <<>>
            /\ installed' = memes
            /\ everNonEmpty' = (everNonEmpty \/ memes # <<>>)
            /\ lastOK' = now
            /\ pc' = [pc EXCEPT ![s] = "sse"]
            /\ UNCHANGED memes
    /\ UNCHANGED <<cmVars, lastFail, now, connID, hdrTodo, fetchErr, meme, cancelled,
                   status, sentAfterCancel, dbgVars>>

\* Mutant: an empty slice yields the zero Meme.
RandomMemes_ZeroValue(ms) == IF Len(ms) = 0 THEN {NoMeme} ELSE Range(ms)

\* What GetRandomMeme can return for a slice ms.
RandomMemes(ms) == IF Len(ms) = 0 THEN {NoMemesAvailable} ELSE Range(ms)

GetRandomMeme(s) ==
    /\ pc[s] = "pick"
    /\ CanRLock
    /\ \E m \in RandomMemes(memes) : meme' = [meme EXCEPT ![s] = m]
    /\ pc' = [pc EXCEPT ![s] = "write"]
    /\ UNCHANGED <<cmVars, msVars, now, connID, hdrTodo, fetchErr, cancelled, status,
                   sentAfterCancel, dbgVars>>

\* ------------------------------------------- the handler after FetchMemes
\* Mutant: the handler logs the error and streams all the same.
FetchFailed_Streams(s) ==
    /\ pc[s] = "fetch_failed"
    /\ AddConnectionEvent(connID[s], "Meme Fetch Error: " \o fetchErr[s])
    /\ fetchErr' = [fetchErr EXCEPT ![s] = ""]
    /\ pc' = [pc EXCEPT ![s] = "sse"]
    /\ UNCHANGED <<msVars, now, connID, hdrTodo, meme, cancelled, status,
                   sentAfterCancel, dbgVars>>

\* if err := s.memeService.FetchMemes(); err != nil: log the error, answer
\* 500, return.
FetchFailed(s) ==
    /\ pc[s] = "fetch_failed"
    /\ AddConnectionEvent(connID[s], "Meme Fetch Error: " \o fetchErr[s])
    /\ status' = [status EXCEPT ![s] = 500]
    /\ fetchErr' = [fetchErr EXCEPT ![s] = ""]
    /\ pc' = [pc EXCEPT ![s] = "closed"]
    /\ UNCHANGED <<msVars, now, connID, hdrTodo, meme, cancelled, 
                   sentAfterCancel, dbgVars>>

\* Set the SSE headers and flush them, or give up on a writer that is no
\* http.Flusher.
StartStream(s) ==
    /\ pc[s] = "sse"
    /\ \E flusher \in BOOLEAN :
        IF flusher
        THEN /\ status' = [status EXCEPT ![s] = 200]
             /\ pc' = [pc EXCEPT ![s] = "select"]
             /\ UNCHANGED cmVars
        ELSE /\ AddConnectionEvent(connID[s], "Streaming unsupported")
             /\ status' = [status EXCEPT ![s] = 500]
             /\ pc' = [pc EXCEPT ![s] = "closed"]
    /\ UNCHANGED <<msVars, now, connID, hdrTodo, fetchErr, meme, cancelled, 
                   sentAfterCancel, dbgVars>>

\* Mutant: the loop never looks at closeChan.
SelectsClosed_Never(done) == FALSE

\* select { case <-closeChan: ...; default: ... }: the default branch runs
\* only when the context is not done.
SelectsClosed(done) == done

Select(s) ==
    /\ pc[s] = "select"
    /\ IF SelectsClosed(cancelled[s])
       THEN /\ AddConnectionEvent(connID[s], "Client connection closed")
            /\ pc' = [pc EXCEPT ![s] = "closed"]
       ELSE /\ pc' = [pc EXCEPT ![s] = "pick"]
            /\ UNCHANGED cmVars
    /\ UNCHANGED <<msVars, now, connID, hdrTodo, fetchErr, meme, cancelled, status,
                   sentAfterCancel, dbgVars>>

\* fmt.Fprint(w, message), then Flush; a failed write ends the handler.
Write(s) ==
    /\ pc[s] = "write"
    /\ \E ok \in BOOLEAN :
        IF ok
        THEN /\ sentAfterCancel' = [sentAfterCancel EXCEPT ![s] =
                    IF cancelled[s] /\ @ < 2 THEN @ + 1 ELSE @]
             /\ pc' = [pc EXCEPT ![s] = "sleep"]
             /\ UNCHANGED cmVars
        ELSE /\ AddConnectionEvent(connID[s], "Event Send Error: write failed")
             /\ pc' = [pc EXCEPT ![s] = "closed"]
             /\ UNCHANGED <<sentAfterCancel>>
    /\ meme' = [meme EXCEPT ![s] = NoMeme]
    /\ UNCHANGED <<msVars, now, connID, hdrTodo, fetchErr, cancelled, status, dbgVars>>

\* time.Sleep(5 * time.Second) is over.
Sleep(s) ==
    /\ pc[s] = "sleep"
    /\ pc' = [pc EXCEPT ![s] = "select"]
    /\ UNCHANGED <<cmVars, msVars, now, connID, hdrTodo, fetchErr, meme, cancelled,
                   status, sentAfterCancel, dbgVars>>

\* The handler is in its streaming loop.
Streaming(s) == pc[s] \in {"select", "pick", "write", "sleep"}

\* The transport ends the context of a request whose handler has not yet
\* returned: the client can go away at any point of the request.  The handler
\* reads the context nowhere but in the loop's select.
Cancel(s) ==
    /\ pc[s] # "closed"
    /\ ~cancelled[s]
    /\ cancelled' = [cancelled EXCEPT ![s] = TRUE]
    /\ UNCHANGED <<cmVars, msVars, now, pc, connID, hdrTodo, fetchErr, meme, status,
                   sentAfterCancel, dbgVars>>

Tick(max) ==
    /\ now < BootTime + max
    /\ now' = now + 1
    /\ UNCHANGED <<cmVars, msVars, hVars, dbgVars>>

\* ------------------------------------------------------------ DebugHandler
\* The orders in which a range over a map can yield the members of S.
Orders(S) == {q \in [1..Cardinality(S) -> S] : Range(q) = S}

\* GetConnectionLogs: under the read lock, fill a slice with the addresses of
\* the logs the map holds, in the order the map yields them.
GetConnectionLogs ==
    /\ dbgPc = "idle"
    /\ dbgLogs' \in Orders(Range(connections))
    /\ dbgAtSnapshot' = heap
    /\ dbgPc' = "encode"
    /\ UNCHANGED <<cmVars, msVars, now, hVars, dbgSeen, dbgEncoded>>

\* The log the encoder is at.
Current == dbgLogs[Len(dbgEncoded) + 1]

\* json.NewEncoder(w).Encode(logs) goes through the slice log by log, outside
\* the manager's lock: it starts to read the next log, or, having read them
\* all, writes the response.
Encode_Next ==
    /\ dbgPc = "encode"
    /\ IF Len(dbgEncoded) < Len(dbgLogs)
       THEN /\ dbgSeen' = heap[Current]
            /\ dbgPc' = "reading"
       ELSE /\ dbgPc' = "done"
            /\ UNCHANGED dbgSeen
    /\ UNCHANGED <<cmVars, msVars, now, hVars, dbgLogs, dbgAtSnapshot, dbgEncoded>>

\* What a read of a log's Events can yield when the log went from `old` to
\* `new` while it was read.  No append in between: the log.  Otherwise the
\* read races with the appends: it can see the events up to any of them, or a
\* slice whose length already counts an element that is not written yet.
RacyReads(old, new) ==
    IF old = new
    THEN {new}
    ELSE {[new EXCEPT !.Events = SubSeq(new.Events, 1, n)] :
              n \in Len(old.Events)..Len(new.Events)}
         \cup {[new EXCEPT !.Events = Append(SubSeq(new.Events, 1, n), "")] :
              n \in Len(old.Events)..(Len(new.Events) - 1)}

\* The read of the current log ends.  A read that raced with an append can
\* also bring the encoder down.
Encode_Log ==
    /\ dbgPc = "reading"
    /\ \/ /\ \E l \in RacyReads(dbgSeen, heap[Current]) :
                dbgEncoded' = Append(dbgEncoded, l)
          /\ dbgPc' = "encode"
       \/ /\ dbgSeen # heap[Current]
          /\ dbgPc' = "crashed"
          /\ UNCHANGED dbgEncoded
    /\ dbgSeen' = NoLog
    /\ UNCHANGED <<cmVars, msVars, now, hVars, dbgLogs, dbgAtSnapshot>>

\* ----------------------------------------------------------- specification
Init ==
    /\ connections = <<>>
    /\ heap = [s \in Sessions |-> NoLog]
    /\ maxConnections \in 1..MaxCap
    /\ memes = <<>>
    /\ lastFetch = ZeroTime
    /\ msWriter = NoSession
    /\ body = NoBody
    /\ redditResp = <<>>
    /\ installed = <<>>
    /\ everNonEmpty = FALSE
    /\ lastOK = ZeroTime
    /\ lastFail = ZeroTime
    /\ now = BootTime
    /\ pc = [s \in Sessions |-> "start"]
    /\ connID = [s \in Sessions |-> ""]
    /\ hdrTodo = [s \in Sessions |-> {}]
    /\ fetchErr = [s \in Sessions |-> ""]
    /\ meme = [s \in Sessions |-> NoMeme]
    /\ cancelled = [s \in Sessions |-> FALSE]
    /\ status = [s \in Sessions |-> 0]
    /\ sentAfterCancel = [s \in Sessions |-> 0]
    /\ dbgPc = "idle"
    /\ dbgLogs = <<>>
    /\ dbgAtSnapshot = [s \in Sessions |-> NoLog]
    /\ dbgSeen = NoLog
    /\ dbgEncoded = <<>>

Step(s) ==
    \/ AddConnection(s)
    \/ LogEstablished(s)
    \/ LogHeader(s)
    \/ FetchMemes_Lock(s)
    \/ FetchMemes_Do(s)
    \/ FetchMemes_Extract(s)
    \/ FetchFailed(s)
    \/ StartStream(s)
    \/ Select(s)
    \/ GetRandomMeme(s)
    \/ Write(s)
    \/ Sleep(s)

\* The whole server: handlers, their transports' cancellations, the clock and
\* a /debug request.  The specifications below are its parts, each small
\* enough to explore exhaustively.
Next ==
    \/ \E s \in Sessions : Step(s)
    \/ \E s \in Sessions : Cancel(s)
    \/ Tick(MaxTime)
    \/ GetConnectionLogs
    \/ Encode_Next
    \/ Encode_Log

Spec == Init /\ [][Next]_vars

\* A fresh server taking connections: every handler up to its call of
\* FetchMemes, and the clock.
NextRegistry ==
    \/ \E s \in Clients : AddConnection(s)
    \/ \E s \in Clients : LogEstablished(s)
    \/ \E s \in Clients : LogHeader(s)
    \/ Tick(MaxRegTime)

SpecRegistry == Init /\ [][NextRegistry]_vars

\* A burst of connections: handlers that have got as far as AddConnection.
NextArrivals ==
    \/ \E s \in Arrivals : AddConnection(s)
    \/ Tick(MaxRegTime)

SpecArrivals == Init /\ [][NextArrivals]_vars

\* Connections registering and logging while one /debug request is served.
NextDebug ==
    \/ \E s \in Watched : AddConnection(s)
    \/ \E s \in Watched : LogEstablished(s)
    \/ \E s \in Watched : LogHeader(s)
    \/ Tick(MaxRegTime)
    \/ GetConnectionLogs
    \/ Encode_Next
    \/ Encode_Log

SpecDebug == Init /\ [][NextDebug]_vars

\* The server once the connections in Streams have registered (at boot time,
\* with a manager that has room for all of them), have logged their header
\* and are about to call FetchMemes.
Established(s) ==
    [ID |-> ConnIDFormat(s), Timestamp |-> BootTime, RemoteAddr |-> RemoteAddrOf(s),
     RequestHeaders |-> RequestHeader,
     Events |-> <<"Connection Established", HeaderEvent("Accept")>>,
     allocated |-> TRUE]

InitStreams ==
    /\ connections = [id \in {ConnIDFormat(s) : s \in Streams} |->
                        CHOOSE s \in Streams : ConnIDFormat(s) = id]
    /\ heap = [s \in Sessions |-> IF s \in Streams THEN Established(s) ELSE NoLog]
    /\ maxConnections = NumStreams
    /\ memes = <<>>
    /\ lastFetch = ZeroTime
    /\ msWriter = NoSession
    /\ body = NoBody
    /\ redditResp = <<>>
    /\ installed = <<>>
    /\ everNonEmpty = FALSE
    /\ lastOK = ZeroTime
    /\ lastFail = ZeroTime
    /\ now = BootTime
    /\ pc = [s \in Sessions |-> IF s \in Streams THEN "fetch" ELSE "start"]
    /\ connID = [s \in Sessions |-> IF s \in Streams THEN ConnIDFormat(s) ELSE ""]
    /\ hdrTodo = [s \in Sessions |-> {}]
    /\ fetchErr = [s \in Sessions |-> ""]
    /\ meme = [s \in Sessions |-> NoMeme]
    /\ cancelled = [s \in Sessions |-> FALSE]
    /\ status = [s \in Sessions |-> 0]
    /\ sentAfterCancel = [s \in Sessions |-> 0]
    /\ dbgPc = "idle"
    /\ dbgLogs = <<>>
    /\ dbgAtSnapshot = [s \in Sessions |-> NoLog]
    /\ dbgSeen = NoLog
    /\ dbgEncoded = <<>>

Stream(s) ==
    \/ FetchMemes_Lock(s)
    \/ FetchMemes_Do(s)
    \/ FetchMemes_Extract(s)
    \/ FetchFailed(s)
    \/ StartStream(s)
    \/ Select(s)
    \/ GetRandomMeme(s)
    \/ Write(s)
    \/ Sleep(s)

\* The cache as the handlers drive it while no client goes away: what a
\* cancellation does to a handler (it returns from its loop) a failed write
\* does too, so the calls the cache sees are the same.
NextFetch ==
    \/ \E s \in Streams : Stream(s)
    \/ Tick(MaxTime)

SpecFetch == InitStreams /\ [][NextFetch]_vars

\* The same with the transport ending contexts.
NextCache ==
    \/ \E s \in Streams : Stream(s)
    \/ \E s \in Streams : Cancel(s)
    \/ Tick(MaxTime)

SpecCache == InitStreams /\ [][NextCache]_vars

\* Every handler keeps running, and so does the clock.
FairSpecCache ==
    /\ SpecCache
    /\ \A s \in Streams : WF_vars(Stream(s))

\* Whole handlers, from AddConnection to their return, on a fresh server.
NextLife ==
    \/ \E s \in Lives : Step(s)
    \/ \E s \in Lives : Cancel(s)
    \/ Tick(MaxRegTime)

SpecLife == Init /\ [][NextLife]_vars

\* ------------------------------------------------------------- properties
Registers(s) == pc[s] = "start" /\ pc'[s] = "established"
CallsFetchMemes(s) == pc[s] = "fetch" /\ pc'[s] # "fetch"
Picks(s) == pc[s] = "pick" /\ pc'[s] = "write"
Tracked == Range(connections)

\* C1: the id AddConnection returns is the id of no log the manager holds at
\* the moment of the call.
C1_RegisterReturnsFreshId ==
    [][\A s \in Sessions : Registers(s) => connID'[s] \notin DOMAIN connections]_vars

\* C2: an AddConnection on a full manager removes exactly one log, one of
\* minimal Timestamp among those held when it trims, and leaves every other
\* log held and unchanged; no other step removes or replaces a log.
C2_OnlyTheOldestIsEvicted ==
    [][IF \E s \in Sessions :
            Registers(s) /\ Cardinality(DOMAIN connections) >= maxConnections
       THEN \E s \in Sessions : \E a \in Tracked \cup {s} :
               /\ Registers(s)
               /\ \A b \in Tracked \cup {s} :
                      ~Before(heap'[b].Timestamp, heap'[a].Timestamp)
               /\ Range(connections') = (Tracked \cup {s}) \ {a}
               /\ \A b \in Tracked \ {a} : heap'[b] = heap[b]
       ELSE Tracked \subseteq Range(connections')]_vars

\* C3: whenever no AddConnection is in progress the manager holds at most
\* maxConnections logs.
C3_SizeWithinCapacity == Cardinality(DOMAIN connections) <= maxConnections

\* An AddConnection has run on a full manager: a log was evicted.
C3_Witness ==
    /\ Cardinality(DOMAIN connections) = maxConnections
    /\ \E s \in Sessions : heap[s].allocated /\ s \notin Tracked

\* C4: a FetchMemes called less than RefreshInterval after a successful fetch
\* returns nil without going upstream and leaves memes and lastFetch alone.
C4_ThrottledFetchIsNoOp ==
    [][\A s \in Sessions :
        (CallsFetchMemes(s) /\ lastOK # ZeroTime /\ Since(now, lastOK) < RefreshInterval)
        => /\ pc'[s] = "sse"
           /\ fetchErr'[s] = ""
           /\ msWriter' = msWriter
           /\ memes' = memes
           /\ lastFetch' = lastFetch]_vars

\* Before the clock has moved, two handlers are past FetchMemes: one of them
\* fetched, the other was throttled.
C4_Witness ==
    /\ now = BootTime
    /\ lastOK = BootTime
    /\ \E s, t \in Sessions : s # t /\ pc[s] = "sse" /\ pc[t] = "sse"

\* C5: a FetchMemes called less than RefreshInterval after a failed attempt
\* does not go upstream and leaves memes alone: the throttle applies after a
\* failure as after a success.
C5_ThrottledAfterFailure ==
    [][\A s \in Sessions :
        (CallsFetchMemes(s) /\ lastFail # ZeroTime /\ Since(now, lastFail) < RefreshInterval)
        => pc'[s] # "http" /\ memes' = memes]_vars

\* C6: a FetchMemes that returns an error leaves memes and lastFetch as they
\* were.
C6_FailedFetchKeepsCache ==
    [][\A s \in Sessions :
        (pc[s] = "http" /\ pc'[s] = "fetch_failed")
        => fetchErr'[s] # "" /\ memes' = memes /\ lastFetch' = lastFetch]_vars

\* A fetch has failed on a cache that holds memes, and they are still served.
C6_Witness ==
    \E s \in Sessions :
        /\ pc[s] = "fetch_failed" /\ fetchErr[s] # ""
        /\ memes # <<>> /\ memes = installed
        /\ Since(now, lastFetch) >= RefreshInterval

\* C7 as claimed: once a fetch has installed a non-empty set, GetRandomMeme
\* returns only members of the set the last completed successful fetch installed.
C7_PicksAreInstalledMemes ==
    [][\A s \in Sessions :
        (Picks(s) /\ everNonEmpty) => meme'[s] \in Range(installed)]_vars

\* C7 as amended: GetRandomMeme returns a member of the set the last completed
\* successful fetch installed, or the "No memes available" meme when that set
\* is empty; it never returns from a set that is still being extracted.
C7_PicksAreInstalledOrSentinel ==
    [][\A s \in Sessions :
        Picks(s) => IF installed = <<>>
                    THEN meme'[s] = NoMemesAvailable
                    ELSE meme'[s] \in Range(installed)]_vars

\* A handler got the sentinel after a later fetch replaced a non-empty set by
\* an empty one.
C7_Witness ==
    \E s \in Sessions :
        /\ pc[s] = "write" /\ meme[s] = NoMemesAvailable
        /\ everNonEmpty /\ installed = <<>> /\ msWriter = NoSession

\* C8: no FetchMemes waits for the upstream call with the cache lock held, so
\* no GetRandomMeme has to wait for that call.
C8_NoLockAcrossUpstreamCall ==
    \A s \in Sessions : pc[s] = "http" => (msWriter # s /\ CanRLock)

\* C9: what GetConnectionLogs returned is a copy: the logs the /debug request
\* holds are, for as long as it encodes them, the logs as they were when it
\* took them; no log is appended to while the encoder reads it; and what is
\* encoded is the logs as they were taken.
C9_SnapshotIsACopy ==
    /\ dbgPc \in {"encode", "reading"}
          => \A i \in 1..Len(dbgLogs) : heap[dbgLogs[i]] = dbgAtSnapshot[dbgLogs[i]]
    /\ dbgPc = "reading" => heap[Current] = dbgSeen
    /\ dbgPc # "crashed"
    /\ dbgPc = "done"
          => dbgEncoded = [i \in 1..Len(dbgLogs) |-> dbgAtSnapshot[dbgLogs[i]]]

\* C10: a streaming handler whose context is done closes, and sends at most
\* one more meme before it does.
C10_CancelledStreamCloses ==
    /\ \A s \in Streams : (cancelled[s] /\ Streaming(s)) ~> (pc[s] = "closed")
    /\ [](\A s \in Streams : sentAfterCancel[s] <= 1)

\* A handler was cancelled between its pick and its write, sent that one meme,
\* and closed with the closing event logged.
C10_Witness ==
    \E s \in Streams :
        /\ cancelled[s] /\ pc[s] = "closed" /\ sentAfterCancel[s] = 1
        /\ heap[s].Events[Len(heap[s].Events)] = "Client connection closed"

\* C13: on an empty slice GetRandomMeme returns exactly the "No memes
\* available" meme, and returns it without an error: the handler goes on to
\* write it.
C13_EmptyCacheGivesSentinel ==
    [][\A s \in Sessions :
        (pc[s] = "pick" /\ pc'[s] # "pick" /\ memes = <<>>)
        => /\ meme'[s] = NoMemesAvailable
           /\ pc'[s] = "write"
           /\ fetchErr'[s] = ""]_vars

\* A handler got the sentinel from a cache that never held a meme, after
\* another handler's fetch had failed on it.
C13_Witness ==
    \E s \in Sessions :
        /\ pc[s] = "write" /\ meme[s] = NoMemesAvailable
        /\ ~everNonEmpty /\ memes = <<>> /\ lastFail # ZeroTime

\* C14: a response body that is not a listing (a JSON object of another shape
\* included) makes FetchMemes return an error with memes and lastFetch as they
\* were: only a listing is extracted.
C14_WrongShapeIsFetchError ==
    [][\A s \in Sessions :
        (pc[s] = "http" /\ pc'[s] # "http" /\ body'.kind # "listing")
        => /\ pc'[s] = "fetch_failed"
           /\ fetchErr'[s] # ""
           /\ memes' = memes
           /\ lastFetch' = lastFetch]_vars

\* A handler is inside FetchMemes past the throttle check: in the upstream
\* call or extracting its result.
Fetching(s) == pc[s] \in {"http", "extract"}

\* C19: at most one FetchMemes is past the throttle check at any time, it
\* holds the lock, and none is there less than RefreshInterval after a
\* successful fetch: handlers that start together on a cold or expired cache
\* make one upstream call between them once that call has succeeded.
C19_OneFetchPerWindow ==
    \A s \in Sessions :
        Fetching(s) =>
            /\ msWriter = s
            /\ \A t \in Sessions \ {s} : ~Fetching(t)
            /\ lastOK = ZeroTime \/ Since(now, lastOK) >= RefreshInterval

\* All the handlers started on the cold cache in the same minute; the one
\* fetch succeeded, nothing failed, and every handler is streaming.
C19_Witness ==
    /\ now = BootTime /\ lastOK = BootTime /\ lastFail = ZeroTime
    /\ lastFetch = BootTime
    /\ \A s \in Streams : pc[s] = "select" /\ status[s] = 200

\* The window since the last fetch has elapsed.
Expired == lastFetch # ZeroTime /\ ~Throttled(now, lastFetch)

\* C16: while some handler keeps streaming, each time RefreshInterval has
\* passed since the last fetch a new upstream fetch eventually starts.
C16_RefetchedEveryInterval ==
    (Expired /\ \E s \in Streams : Streaming(s))
        ~> ((\E s \in Streams : Fetching(s)) \/ ~(\E s \in Streams : Streaming(s)))

\* The handler's step calls AddConnectionEvent.
Logs(s) ==
    \/ pc[s] \in {"established", "headers", "fetch_failed"} /\ pc'[s] # pc[s]
    \/ pc[s] \in {"sse", "select", "write"} /\ pc'[s] = "closed"

\* C15: an AddConnectionEvent for an id the manager does not hold changes
\* nothing of the manager (no log is created, no log's events change) and
\* the handler goes on as it would have.
C15_EventForUnknownIdIsNoOp ==
    [][\A s \in Sessions :
        (Logs(s) /\ connID[s] \notin DOMAIN connections)
        => /\ connections' = connections
           /\ heap' = heap
           /\ pc[s] = "established" => pc'[s] \in {"headers", "fetch"}
           /\ pc[s] = "headers" => pc'[s] \in {"headers", "fetch"}]_vars

\* A handler whose log was evicted before it logged anything has made both
\* of its calls, and no log has an event.
C15_Witness ==
    \E s \in Sessions :
        /\ pc[s] = "fetch" /\ connID[s] \notin DOMAIN connections
        /\ connections # <<>>
        /\ \A a \in Sessions : heap[a].Events = <<>>

IsPrefix(u, v) == Len(u) <= Len(v) /\ SubSeq(v, 1, Len(u)) = u

\* The events a handler logs on its way out.
TerminalEvents ==
    {"Meme Fetch Error: " \o e :
        e \in {"failed to fetch memes", "failed to read response body",
               "failed to parse JSON"}}
    \cup {"Streaming unsupported", "Event Send Error: write failed",
          "Client connection closed"}

InSessionOrder(ev) ==
    \A i \in 1..Len(ev) :
        /\ (ev[i] = "Connection Established") <=> (i = 1)
        /\ ev[i] \in TerminalEvents => i = Len(ev)
        /\ (i > 1 /\ ev[i] \notin TerminalEvents)
               => ev[i] \in {HeaderEvent(k) : k \in RequestHeader}

\* C17: the events of a log only grow at the end, and read in the order of
\* its handler's run: "Connection Established" first and only first, then the
\* header events, then at most one terminal event, last.
C17_EventsInSessionOrder ==
    [][\A a \in Sessions :
        /\ heap[a].allocated => IsPrefix(heap[a].Events, heap'[a].Events)
        /\ InSessionOrder(heap'[a].Events)]_vars

\* C18: an AddConnectionEvent made by a handler changes no log but the one
\* that handler's AddConnection created, so every event of a log comes from
\* the handler the log was created for.
C18_EventsLandInOwnLog ==
    [][\A s \in Sessions :
        Logs(s) => \A a \in Sessions \ {s} : heap'[a] = heap[a]]_vars

\* C20: when AddConnection returns, the manager holds under the returned id
\* the log that call created, with no events and the caller's address and
\* headers: the trim never removes the log just added.
C20_NewLogSurvivesItsTrim ==
    [][\A s \in Sessions :
        Registers(s)
        => /\ connID'[s] \in DOMAIN connections'
           /\ connections'[connID'[s]] = s
           /\ heap'[s].ID = connID'[s]
           /\ heap'[s].Events = <<>>
           /\ heap'[s].RemoteAddr = RemoteAddrOf(s)
           /\ heap'[s].RequestHeaders = RequestHeader]_vars

\* The handler's select finds its context done.
ObservesCancel(s) == pc[s] = "select" /\ cancelled[s] /\ pc'[s] # "select"

\* The manager holds the log created for s, and its last event is the closing one.
HoldsClosed(s) ==
    /\ s \in Tracked
    /\ heap[s].Events # <<>>
    /\ heap[s].Events[Len(heap[s].Events)] = "Client connection closed"

\* C11 as claimed: a streaming handler that sees its context done closes with
\* "Client connection closed" as the last event of its own log, and from then
\* on the manager holds that log with that event last.
C11_ClosedEventInLaterSnapshots ==
    [][\A s \in Sessions :
        /\ ObservesCancel(s) => (pc'[s] = "closed" /\ HoldsClosed(s)')
        /\ (pc[s] = "closed" /\ HoldsClosed(s)) => HoldsClosed(s)']_vars

\* C11 as amended: a streaming handler that sees its context done calls
\* AddConnectionEvent with its id and closes; the closing event becomes the
\* last event of the log held under that id if there is one, and nothing is
\* recorded otherwise.  The handler's own log ends with it exactly when the
\* manager still holds that log under the handler's id.
C11_ClosedEventGoesToHeldLog ==
    [][\A s \in Sessions :
        ObservesCancel(s)
        => /\ pc'[s] = "closed"
           /\ connections' = connections
           /\ IF connID[s] \in DOMAIN connections
              THEN heap' = [heap EXCEPT ![connections[connID[s]]].Events =
                                Append(@, "Client connection closed")]
              ELSE heap' = heap
           /\ (connID[s] \in DOMAIN connections /\ connections[connID[s]] = s)
                  <=> HoldsClosed(s)']_vars

\* Two handlers saw their contexts done and closed: the log of one had been
\* evicted and got no closing event, the other's is held and ends with it.
C11_Witness ==
    \E s, t \in Sessions :
        /\ pc[s] = "closed" /\ cancelled[s] /\ status[s] = 200
        /\ sentAfterCancel[s] = 0
        /\ s \notin Tracked /\ heap[s].allocated /\ ~HoldsClosed(s)
        /\ pc[t] = "closed" /\ cancelled[t] /\ HoldsClosed(t)

\* The manager holds the log created for s under the id s was given.
HoldsOwnLog(s) == connID[s] \in DOMAIN connections /\ connections[connID[s]] = s

\* C12 as claimed: a handler whose FetchMemes returned an error has streamed
\* nothing; it appends "Meme Fetch Error: ..." to its own log, answers 500
\* and returns, and a handler that has returned takes no further step.
C12_FailedFetchLoggedAndClosed ==
    [][\A s \in Sessions :
        /\ (pc[s] = "http" /\ fetchErr'[s] # "") => pc'[s] = "fetch_failed"
        /\ pc'[s] = "fetch_failed"
              => (fetchErr'[s] # "" /\ status'[s] = 0 /\ meme'[s] = NoMeme
                  /\ sentAfterCancel'[s] = 0)
        /\ (pc[s] = "fetch_failed" /\ pc'[s] # "fetch_failed")
              => /\ pc'[s] = "closed"
                 /\ status'[s] = 500
                 /\ heap'[s].Events =
                        Append(heap[s].Events, "Meme Fetch Error: " \o fetchErr[s])
        /\ pc[s] = "closed"
              => (pc'[s] = "closed" /\ status'[s] = status[s] /\ meme'[s] = meme[s])]_vars

\* C12 as amended: a handler whose FetchMemes returned an error has streamed
\* nothing; it calls AddConnectionEvent with its id and "Meme Fetch Error:
\* ...", answers 500 and returns, and a handler that has returned takes no
\* further step.  The event becomes the last event of the log held under that
\* id if there is one, and nothing is recorded otherwise; the handler's own
\* log gets it whenever the manager still holds that log under the handler's id.
C12_FailedFetchClosesSession ==
    [][\A s \in Sessions :
        /\ (pc[s] = "http" /\ fetchErr'[s] # "") => pc'[s] = "fetch_failed"
        /\ pc'[s] = "fetch_failed"
              => (fetchErr'[s] # "" /\ status'[s] = 0 /\ meme'[s] = NoMeme
                  /\ sentAfterCancel'[s] = 0)
        /\ (pc[s] = "fetch_failed" /\ pc'[s] # "fetch_failed")
              => /\ pc'[s] = "closed"
                 /\ status'[s] = 500
                 /\ connections' = connections
                 /\ IF connID[s] \in DOMAIN connections
                    THEN heap' = [heap EXCEPT ![connections[connID[s]]].Events =
                                    Append(@, "Meme Fetch Error: " \o fetchErr[s])]
                    ELSE heap' = heap
                 /\ HoldsOwnLog(s) =>
                        heap'[s].Events =
                            Append(heap[s].Events, "Meme Fetch Error: " \o fetchErr[s])
        /\ pc[s] = "closed"
              => (pc'[s] = "closed" /\ status'[s] = status[s] /\ meme'[s] = meme[s])]_vars

\* No fetch has succeeded and two handlers have returned with 500 having sent
\* nothing: the log of one had been evicted and got no error event, the
\* other's is held and ends with the error.
C12_Witness ==
    \E s, t \in Sessions :
        /\ lastOK = ZeroTime
        /\ pc[s] = "closed" /\ status[s] = 500 /\ sentAfterCancel[s] = 0
        /\ heap[s].allocated /\ s \notin Tracked
        /\ \A i \in 1..Len(heap[s].Events) : heap[s].Events[i] \notin TerminalEvents
        /\ pc[t] = "closed" /\ status[t] = 500 /\ sentAfterCancel[t] = 0
        /\ HoldsOwnLog(t)
        /\ heap[t].Events # <<>>
        /\ heap[t].Events[Len(heap[t].Events)] = "Meme Fetch Error: failed to fetch memes"

====
